---- MODULE Spec2Model ----
(***************************************************************************)
(* Speech-to-text core of the desktop shell (src-tauri/src/stt.rs and the  *)
(* stt_* commands of src-tauri/src/lib.rs): the recording session, the     *)
(* model download, and the TDT greedy decode loop of                       *)
(* SttInference::transcribe.                                               *)
(*                                                                         *)
(* Spec        the shared SttState under the stt_* commands.               *)
(* SpecRace    the same under two concurrent stt_download_model calls.     *)
(* SpecDecode  one call of SttInference::transcribe, step by step.         *)
(* SpecArgMax  the token / duration arg-max of one decoder output.         *)
(* SpecDownload  one stt_download_model caller with a subscribed listener  *)
(*             of the "stt:download-progress" events.                      *)
(* SpecVocab   SttState::load_vocab on a vocab.txt.                        *)
(* SpecDetok   the detokenizer at the end of SttInference::transcribe.     *)
(* SpecLabel   the decode loop over one frame with two distinct tokens.    *)
(* SpecEngines concurrent transcribe calls on one loaded model.            *)
(* SpecEnginesFair  the same, with engine calls and free locks returning.  *)
(***************************************************************************)
EXTENDS Integers, Sequences, FiniteSets, TLC

VARIABLES
    \* ---- SttState (stt.rs:51-72) ----
    audio_buffer,           \* Vec<f32>
    is_recording,           \* bool
    preprocessor_session,   \* Option<Arc<Mutex<Session>>>: None or a handle id
    encoder_session,
    decoder_session,
    model_status,           \* ModelStatus
    model_dir,              \* the files of MODEL_FILES that exist in model_dir
    \* ---- callers of the commands ----
    call,                   \* last start/push/stop command and what it returned
    audio,                  \* local `audio` of stt_stop_and_transcribe (lib.rs:257)
    task,                   \* the spawn_blocking transcription of that command
    dl,                     \* download_models: position and locals of each call
    state_lock,             \* the Mutex of SharedSttState: Unlocked, or held
    snapshot,               \* the SttInference of the running transcription: its handle
    vocab_load,             \* the load that vocab, vocab_size and blank_idx are of
    snapshot_vocab,         \* the load of the snapshot's vocab, vocab_size, blank_idx
    poisoned,               \* handles whose engine mutexes a panic has poisoned
    listener,               \* frontend listener of "stt:download-progress"
    \* ---- history ----
    started,                \* a start_recording has succeeded
    pushed,                 \* samples accepted since the last successful start
    failed,                 \* a transcription has returned an error of an engine
                            \* or of the state size check
    \* ---- SttInference::transcribe (stt.rs:276-497) ----
    inf,                    \* the SttInference snapshot: vocab, vocab_size, blank_idx
    wave,                   \* the `audio` argument
    tpc,                    \* position in transcribe
    num_frames,             \* encoder_shape[2]
    encoded_len,            \* encoder_lens[0] as usize
    t,                      \* frame pointer
    tokens,                 \* Vec<i64> of emitted tokens
    emitted_tokens,         \* same-step emission counter
    state1,                 \* LSTM state tensors
    state2,
    token,                  \* arg-max token of the last decoder output
    step,                   \* arg-max duration of the last decoder output
    targets,                \* the label fed to the last decoder call
    frame_start,            \* history: Len(tokens) when t last advanced
    calls,                  \* engine invocations made so far
    result,                 \* what transcribe returned
    kinds,                  \* history: what the completed decode steps had in common
    outputs_flat,           \* a decoder output, for SpecArgMax
    \* ---- SttState::load_vocab (stt.rs:132-154) ----
    vocab_txt,              \* vocab.txt: whether it can be read, and its lines
    loaded,                 \* what load_vocab returned
    \* ---- the engine mutexes of one loaded model (stt.rs:204-206) ----
    engine_guard,           \* who holds the MutexGuard of each engine
    tx                      \* concurrent transcribe calls on that model

sessionVars == <<audio_buffer, is_recording, preprocessor_session, encoder_session,
                 decoder_session, model_status, call, audio, task, dl, started, pushed,
                 state_lock, snapshot, poisoned, listener, failed, model_dir,
                 vocab_load, snapshot_vocab>>
decodeVars  == <<inf, wave, tpc, num_frames, encoded_len, t, tokens, emitted_tokens,
                 state1, state2, token, step, calls, result, kinds, targets, frame_start>>
vocabVars == <<vocab_txt, loaded>>
engineVars == <<engine_guard, tx>>
vars == <<sessionVars, decodeVars, outputs_flat, vocabVars, engineVars>>

----------------------------------------------------------------------------
(* Bounds of the model *)

MaxBuf == 3             \* longest audio buffer explored
MaxPush == 2            \* longest sample vector of one push_audio call
MaxAttempts == 2        \* downloads a listener follows from their first event
MaxLines == 2           \* most lines of a vocab.txt
MaxToks == 3            \* most tokens handed to the detokenizer

Samples == {1, 2}       \* sample values (stand-ins for f32)

SeqsUpTo(S, n) == UNION {[1..k -> S] : k \in 0..n}

PushInputs == SeqsUpTo(Samples, MaxPush)

Downloaders == {1}      \* concurrent stt_download_model calls

----------------------------------------------------------------------------
(* Program constants *)

NumModelFiles == 6      \* MODEL_FILES.len()

None == 0               \* Option::None for a session handle
InitHandle == 1         \* the handles SttState::new installs
Handles == {1, 2, 3}    \* identities of Arc<Mutex<Session>> allocations

Status(ty, p, m) == [type |-> ty, progress |-> p, message |-> m]

NotDownloaded   == Status("NotDownloaded", 0, "")
Downloading(p)  == Status("Downloading", p, "")   \* p files of NumModelFiles done
Ready           == Status("Ready", 0, "")
Error(m)        == Status("Error", 0, m)

\* Result<_, String> of a command: Ok(text) or Err(err)
Ok(text) == [ok |-> TRUE, text |-> text, err |-> ""]
Err(m)   == [ok |-> FALSE, text |-> <<>>, err |-> m]

ErrNotReady     == "Model not ready. Please download the model first."
ErrNotRecording == "Not recording"

\* A command as its caller saw it: its name, its argument, what it returned
Called(op, arg, r) == [op |-> op, arg |-> arg, ret |-> r]

Unlocked == "unlocked"

lock_block_leaked ==
    /\ state_lock = Unlocked
    /\ state_lock' = "held"

\* A locked block of SharedSttState: `state.lock()` at its start, the guard
\* dropped at the end of the block (or of the command, lib.rs:222, 237, 246)
lock_block ==
    /\ state_lock = Unlocked
    /\ state_lock' = Unlocked

\* What the parts of the session a command does not touch keep
keeps_engines ==
    UNCHANGED <<snapshot, poisoned, failed, model_dir, vocab_load, snapshot_vocab>>

\* A progress value, (downloaded as f32) / (total_files as f32), as a fraction
Progress(n, d) == [num |-> n, den |-> d]

\* app.emit("stt:download-progress", progress): a subscribed listener
\* receives the value
emit(progress) ==
    listener' = IF listener.subscribed
                THEN [listener EXCEPT !.received = Append(@, progress)]
                ELSE listener

----------------------------------------------------------------------------
(* SttState: the recording session *)

\* MODEL_FILES (stt.rs:25-32) by position
ModelFiles == 1..NumModelFiles

\* SttState::new: nothing on disk, or the files are there and load_models
\* succeeds, or load_models fails.
SttStateNew ==
    /\ audio_buffer = <<>>
    /\ is_recording = FALSE
    /\ \/ /\ model_status = NotDownloaded
          /\ model_dir = {}
          /\ vocab_load = None
          /\ preprocessor_session = None
          /\ encoder_session = None
          /\ decoder_session = None
       \/ /\ model_status = Ready
          /\ model_dir = ModelFiles
          /\ vocab_load = InitHandle
          /\ preprocessor_session = InitHandle
          /\ encoder_session = InitHandle
          /\ decoder_session = InitHandle
       \/ /\ model_status = Error("load")
          /\ model_dir = ModelFiles
          /\ vocab_load = None
          /\ preprocessor_session = None
          /\ encoder_session = None
          /\ decoder_session = None

start_recording_unguarded ==
    /\ audio_buffer' = <<>>
    /\ is_recording' = TRUE
    /\ started' = TRUE
    /\ pushed' = <<>>
    /\ call' = Called("start_recording", <<>>, Ok(<<>>))

start_recording_keeps_buffer ==
    IF model_status.type # "Ready"
    THEN /\ call' = Called("start_recording", <<>>, Err(ErrNotReady))
         /\ UNCHANGED <<audio_buffer, is_recording, started, pushed>>
    ELSE /\ is_recording' = TRUE
         /\ started' = TRUE
         /\ pushed' = <<>>
         /\ call' = Called("start_recording", <<>>, Ok(<<>>))
         /\ UNCHANGED audio_buffer

\* SttState::start_recording under stt_start_recording's lock
start_recording ==
    IF model_status.type # "Ready"
    THEN /\ call' = Called("start_recording", <<>>, Err(ErrNotReady))
         /\ UNCHANGED <<audio_buffer, is_recording, started, pushed>>
    ELSE /\ audio_buffer' = <<>>
         /\ is_recording' = TRUE
         /\ started' = TRUE
         /\ pushed' = <<>>
         /\ call' = Called("start_recording", <<>>, Ok(<<>>))

stt_start_recording ==
    /\ lock_block
    /\ start_recording
    /\ keeps_engines
    /\ UNCHANGED <<preprocessor_session, encoder_session, decoder_session,
                   model_status, audio, task, dl, listener>>

push_audio_unguarded(samples) ==
    /\ audio_buffer' = audio_buffer \o samples
    /\ pushed' = pushed \o samples
    /\ call' = Called("push_audio", samples, Ok(<<>>))

push_audio_prepends(samples) ==
    IF ~is_recording
    THEN /\ call' = Called("push_audio", samples, Err(ErrNotRecording))
         /\ UNCHANGED <<audio_buffer, pushed>>
    ELSE /\ audio_buffer' = samples \o audio_buffer
         /\ pushed' = pushed \o samples
         /\ call' = Called("push_audio", samples, Ok(<<>>))

\* SttState::push_audio under stt_push_audio's lock
push_audio(samples) ==
    IF ~is_recording
    THEN /\ call' = Called("push_audio", samples, Err(ErrNotRecording))
         /\ UNCHANGED <<audio_buffer, pushed>>
    ELSE /\ audio_buffer' = audio_buffer \o samples
         /\ pushed' = pushed \o samples
         /\ call' = Called("push_audio", samples, Ok(<<>>))

stt_push_audio_shares_buffer ==
    \E samples \in PushInputs :
        /\ Len(audio_buffer) + Len(samples) <= MaxBuf
        /\ lock_block
        /\ push_audio(samples)
        /\ audio' = IF is_recording THEN audio \o samples ELSE audio
        /\ keeps_engines
        /\ UNCHANGED <<is_recording, preprocessor_session, encoder_session,
                       decoder_session, model_status, task, dl, started,
                       listener>>

stt_push_audio ==
    \E samples \in PushInputs :
        /\ Len(audio_buffer) + Len(samples) <= MaxBuf
        /\ lock_block
        /\ push_audio(samples)
        /\ keeps_engines
        /\ UNCHANGED <<is_recording, preprocessor_session, encoder_session,
                       decoder_session, model_status, audio, task, dl, started,
                       listener>>

stop_recording_copies ==
    /\ is_recording' = FALSE
    /\ audio' = audio_buffer
    /\ UNCHANGED audio_buffer

\* SttState::stop_recording; its return value is stt_stop_and_transcribe's `audio`
stop_recording ==
    /\ is_recording' = FALSE
    /\ audio' = audio_buffer
    /\ audio_buffer' = <<>>

\* SttState::inference: Ok, or the error of the first handle that is None
inference ==
    IF preprocessor_session = None THEN Err("Preprocessor not loaded")
    ELSE IF encoder_session = None THEN Err("Encoder not loaded")
    ELSE IF decoder_session = None THEN Err("Decoder not loaded")
    ELSE Ok(<<>>)


\* What SttInference::transcribe can return for an audio, seen from the
\* command: Ok("") at once for empty audio (stt.rs:277-279); otherwise a
\* transcript, an error of an engine or of the state size check, or a panic
\* of the blocking task (lib.rs:262-264).
TranscribeOutcomes(a) ==
    IF a = <<>>
    THEN {Ok(<<>>)}
    ELSE {Ok(<<>>), Ok(<<"a">>), Err("inference"), Err("State1 size mismatch"),
          Err("Transcription task failed")}

\* The errors transcribe returns with `?`: its engine guards are dropped
EngineErrors == {Err("inference"), Err("State1 size mismatch")}

\* A panic of the blocking task, as the command reports it (lib.rs:264)
Panicked == Err("Transcription task failed")

\* Mutex::lock on an engine whose mutex is poisoned (stt.rs:295-298)
LockError == Err("Lock error")

\* What the transcription of `a` with the engines of handle h can return:
\* past the empty-audio return the first engine is locked, which fails once
\* a panic inside transcribe has poisoned it
transcribe(a, h) ==
    IF a # <<>> /\ h \in poisoned
    THEN {LockError}
    ELSE TranscribeOutcomes(a)

TaskIdle(r) == [pc |-> "idle", ret |-> r]
TaskRunning == [pc |-> "running", ret |-> Err("pending")]

\* stt_stop_and_transcribe, the locked block (lib.rs:255-260): stop_recording,
\* then inference(); an error of inference() is the command's result, and
\* otherwise the transcription is spawned and its result is the command's.
\* call.ret is what inference() returned; task.ret is the command's result.
stt_stop_and_transcribe ==
    /\ task.pc = "idle"
    /\ lock_block
    /\ stop_recording
    /\ IF inference.ok
       THEN /\ task' = TaskRunning
            /\ snapshot' = preprocessor_session
            /\ snapshot_vocab' = vocab_load
       ELSE /\ task' = TaskIdle(inference)
            /\ snapshot' = None
            /\ snapshot_vocab' = None
    /\ call' = Called("stop_and_transcribe", <<>>, inference)
    /\ UNCHANGED <<preprocessor_session, encoder_session, decoder_session,
                   model_status, dl, started, pushed, poisoned, listener, failed,
                   model_dir, vocab_load>>

\* The spawn_blocking transcription ends (lib.rs:262-264); no lock is held.
transcribe_done_unloads ==
    /\ task.pc = "running"
    /\ \E r \in transcribe(audio, snapshot) :
          /\ task' = TaskIdle(r)
          /\ poisoned' = (IF r = Panicked THEN poisoned \cup {snapshot} ELSE poisoned)
                             \cap {preprocessor_session}
          /\ failed' = (failed \/ r \in EngineErrors)
          /\ IF r.ok
             THEN UNCHANGED <<preprocessor_session, encoder_session, decoder_session,
                              model_status>>
             ELSE /\ preprocessor_session' = None
                  /\ encoder_session' = None
                  /\ decoder_session' = None
                  /\ model_status' = Error(r.err)
    /\ snapshot' = None
    /\ snapshot_vocab' = None
    /\ UNCHANGED <<vocab_load, audio_buffer, is_recording, call, audio, dl, started, pushed,
                   state_lock, listener, model_dir>>

transcribe_done_restores ==
    /\ task.pc = "running"
    /\ \E r \in transcribe(audio, snapshot) :
          /\ task' = TaskIdle(r)
          /\ poisoned' = (IF r = Panicked THEN poisoned \cup {snapshot} ELSE poisoned)
                             \cap {preprocessor_session}
          /\ failed' = (failed \/ r \in EngineErrors)
          /\ audio_buffer' = IF r.ok THEN audio_buffer ELSE audio \o audio_buffer
    /\ snapshot' = None
    /\ snapshot_vocab' = None
    /\ UNCHANGED <<vocab_load, is_recording, preprocessor_session, encoder_session,
                   decoder_session, model_status, call, audio, dl, started, pushed,
                   state_lock, listener, model_dir>>

\* The engine guards of transcribe live to its end (stt.rs:295, 325, 368), so
\* a panic inside it poisons the mutexes of the handles it runs on.
transcribe_done ==
    /\ task.pc = "running"
    /\ \E r \in transcribe(audio, snapshot) :
          /\ task' = TaskIdle(r)
          /\ poisoned' = (IF r = Panicked THEN poisoned \cup {snapshot} ELSE poisoned)
                             \cap {preprocessor_session}
          /\ failed' = (failed \/ r \in EngineErrors)
    /\ snapshot' = None
    /\ snapshot_vocab' = None
    /\ UNCHANGED <<vocab_load, audio_buffer, is_recording, preprocessor_session, encoder_session,
                   decoder_session, model_status, call, audio, dl, started, pushed,
                   state_lock, listener, model_dir>>

\* stt_get_status (lib.rs:218-223) with SttState::get_status (stt.rs:103-108)
get_status == <<model_status, is_recording>>

stt_get_status ==
    /\ lock_block
    /\ call' = Called("get_status", <<>>, Ok(get_status))
    /\ keeps_engines
    /\ UNCHANGED <<audio_buffer, is_recording, preprocessor_session, encoder_session,
                   decoder_session, model_status, audio, task, dl, started, pushed,
                   listener>>

----------------------------------------------------------------------------
(* download_models (stt.rs:554-621), one action per locked block or await *)

DlIdle(r) == [pc |-> "idle", downloaded |-> 0, ret |-> r]
DlAt(pc, n) == [pc |-> pc, downloaded |-> n, ret |-> Err("pending")]

dlFrame == <<audio_buffer, is_recording, call, audio, task, started, pushed,
             snapshot, snapshot_vocab, failed>>

\* the file the loop of stt.rs:583-600 is at
current_file(d) == dl[d].downloaded + 1

\* Arc::new(Mutex::new(..)) of build_models (stt.rs:204-206): an allocation
\* that is none of the live ones
Built ==
    LET free == Handles \ {preprocessor_session, encoder_session, decoder_session,
                           snapshot}
    IN  CHOOSE h \in free : \A g \in free : h <= g

dl_check_always(d) ==
    /\ dl[d].pc = "idle"
    /\ lock_block
    /\ dl' = [dl EXCEPT ![d] = DlAt("set", 0)]
    /\ UNCHANGED <<preprocessor_session, encoder_session, decoder_session, model_status,
                   listener, poisoned>>
    /\ UNCHANGED <<dlFrame, model_dir, vocab_load>>

\* stt.rs:556-568: return Ok at once when Ready and loaded; else create the
\* model directory (which can fail)
dl_check(d) ==
    /\ dl[d].pc = "idle"
    /\ UNCHANGED poisoned
    /\ lock_block
    /\ UNCHANGED listener
    /\ IF model_status.type = "Ready" /\ preprocessor_session # None
       THEN dl' = [dl EXCEPT ![d] = DlIdle(Ok(<<>>))]
       ELSE \/ dl' = [dl EXCEPT ![d] = DlAt("set", 0)]
            \/ dl' = [dl EXCEPT ![d] = DlIdle(Err("Failed to create model directory"))]
    /\ UNCHANGED <<preprocessor_session, encoder_session, decoder_session, model_status>>
    /\ UNCHANGED <<dlFrame, model_dir, vocab_load>>

\* stt.rs:571-575
dl_set_downloading(d) ==
    /\ dl[d].pc = "set"
    /\ UNCHANGED poisoned
    /\ lock_block
    /\ UNCHANGED listener
    /\ model_status' = Downloading(0)
    /\ dl' = [dl EXCEPT ![d] = DlAt("file", 0)]
    /\ UNCHANGED <<preprocessor_session, encoder_session, decoder_session>>
    /\ UNCHANGED <<dlFrame, model_dir, vocab_load>>

dl_progress_after_fetch(d) ==
    /\ dl[d].pc = "file"
    /\ emit(Progress(dl[d].downloaded + 1, NumModelFiles))
    /\ lock_block
    /\ model_status' = Downloading(dl[d].downloaded)
    /\ dl' = [dl EXCEPT ![d] = DlAt("fetch", dl[d].downloaded)]
    /\ UNCHANGED <<preprocessor_session, encoder_session, decoder_session, poisoned>>
    /\ UNCHANGED <<dlFrame, model_dir, vocab_load>>

\* stt.rs:587-596: emit the progress, then set Downloading{progress}
dl_progress(d) ==
    /\ dl[d].pc = "file"
    /\ UNCHANGED poisoned
    /\ emit(Progress(dl[d].downloaded, NumModelFiles))
    /\ lock_block
    /\ model_status' = Downloading(dl[d].downloaded)
    /\ dl' = [dl EXCEPT ![d] = DlAt("fetch", dl[d].downloaded)]
    /\ UNCHANGED <<preprocessor_session, encoder_session, decoder_session>>
    /\ UNCHANGED <<dlFrame, model_dir, vocab_load>>

\* the loop of stt.rs:583-600 after a file: the next one, or the build
next_file(d) ==
    IF dl[d].downloaded + 1 = NumModelFiles
    THEN DlAt("build", NumModelFiles)
    ELSE DlAt("file", dl[d].downloaded + 1)

dl_fetch_goes_on(d) ==
    /\ dl[d].pc = "fetch"
    /\ UNCHANGED poisoned
    /\ UNCHANGED <<state_lock, listener>>
    /\ dl' = [dl EXCEPT ![d] = next_file(d)]
    /\ model_dir' \in {model_dir, model_dir \cup {current_file(d)}}
    /\ UNCHANGED <<preprocessor_session, encoder_session, decoder_session, model_status>>
    /\ UNCHANGED <<dlFrame, vocab_load>>

\* stt.rs:598-599: download_file(..).await? ; downloaded += 1. download_file
\* (stt.rs:519-551) fails before File::create (the request, the HTTP
\* status), leaving the directory as it was, or after it (create, stream,
\* write, flush), leaving a file of that name; it removes nothing.
dl_fetch(d) ==
    /\ dl[d].pc = "fetch"
    /\ UNCHANGED poisoned
    /\ UNCHANGED <<state_lock, listener>>
    /\ \/ /\ dl' = [dl EXCEPT ![d] = next_file(d)]
          /\ model_dir' = model_dir \cup {current_file(d)}
       \/ /\ dl' = [dl EXCEPT ![d] = DlIdle(Err("Failed to download"))]
          /\ model_dir' \in {model_dir, model_dir \cup {current_file(d)}}
    /\ UNCHANGED <<preprocessor_session, encoder_session, decoder_session, model_status>>
    /\ UNCHANGED <<dlFrame, vocab_load>>

\* stt.rs:603-610: emit 1.0, then build_models on a blocking thread
dl_build(d) ==
    /\ dl[d].pc = "build"
    /\ UNCHANGED poisoned
    /\ emit(Progress(1, 1))
    /\ UNCHANGED state_lock
    /\ \/ dl' = [dl EXCEPT ![d] = DlAt("apply", NumModelFiles)]
       \/ dl' = [dl EXCEPT ![d] = DlIdle(Err("Failed to load models"))]
    /\ UNCHANGED <<preprocessor_session, encoder_session, decoder_session, model_status>>
    /\ UNCHANGED <<dlFrame, model_dir, vocab_load>>

apply_models_status_first(h) ==
    /\ preprocessor_session' = h
    /\ encoder_session' = h
    /\ UNCHANGED decoder_session
    /\ vocab_load' = h
    /\ model_status' = Ready

apply_models_keeps_vocab(h) ==
    /\ preprocessor_session' = h
    /\ encoder_session' = h
    /\ decoder_session' = h
    /\ UNCHANGED vocab_load
    /\ model_status' = Ready

\* SttState::apply_models (stt.rs:213-221) as called at stt.rs:613-618
apply_models(h) ==
    /\ preprocessor_session' = h
    /\ encoder_session' = h
    /\ decoder_session' = h
    /\ vocab_load' = h
    /\ model_status' = Ready

dl_apply(d) ==
    /\ dl[d].pc = "apply"
    /\ lock_block
    /\ UNCHANGED listener
    /\ apply_models(Built)
    /\ poisoned' = poisoned \cap {snapshot}     \* the replaced engines are dropped
    /\ dl' = [dl EXCEPT ![d] = DlIdle(Ok(<<>>))]
    /\ UNCHANGED <<dlFrame, model_dir>>

stt_download_model ==
    \E d \in Downloaders :
        \/ dl_check(d)
        \/ dl_set_downloading(d)
        \/ dl_progress(d)
        \/ dl_fetch(d)
        \/ dl_build(d)
        \/ dl_apply(d)

----------------------------------------------------------------------------
(* SttState::load_vocab (stt.rs:132-154). A line of vocab.txt is a sequence
   of characters; Marker stands for the one character U+2581. *)

Marker == "U+2581"

\* Vocabulary strings are sequences of characters
Blk == <<"<", "b", "l", "k", ">">>

\* char::is_whitespace on the characters of the model
IsSpace(c) == c \in {" ", "\t", "\n"}

IsDigit(c) == c \in {"0", "1", "2", "3", "4", "5", "6", "7", "8", "9"}

DigitValue(c) ==
    CASE c = "0" -> 0 [] c = "1" -> 1 [] c = "2" -> 2 [] c = "3" -> 3 [] c = "4" -> 4
      [] c = "5" -> 5 [] c = "6" -> 6 [] c = "7" -> 7 [] c = "8" -> 8 [] c = "9" -> 9

RECURSIVE trim_start(_)
trim_start(s) ==
    IF s # <<>> /\ IsSpace(Head(s)) THEN trim_start(Tail(s)) ELSE s

RECURSIVE trim_end(_)
trim_end(s) ==
    IF s # <<>> /\ IsSpace(s[Len(s)]) THEN trim_end(SubSeq(s, 1, Len(s) - 1)) ELSE s

\* str::trim
trim(s) == trim_end(trim_start(s))

RECURSIVE split(_, _)
\* str::split(' '): the parts between single spaces, empty parts included;
\* `part` is the part being read
split(s, part) ==
    IF s = <<>> THEN <<part>>
    ELSE IF Head(s) = " " THEN <<part>> \o split(Tail(s), <<>>)
    ELSE split(Tail(s), Append(part, Head(s)))

replace_first(s) ==
    [i \in DOMAIN s |->
        IF s[i] = Marker /\ (\A j \in 1..(i - 1) : s[j] # Marker) THEN " " ELSE s[i]]

\* str::replace('\u{2581}', " "): every occurrence
replace(s) == [i \in DOMAIN s |-> IF s[i] = Marker THEN " " ELSE s[i]]

RECURSIVE digits_value(_, _)
digits_value(s, acc) ==
    IF s = <<>> THEN acc
    ELSE digits_value(Tail(s), 10 * acc + DigitValue(Head(s)))

parse_i64_lenient(s) ==
    LET body == IF s # <<>> /\ Head(s) \in {"+", "-"} THEN Tail(s) ELSE s
    IN  IF body = <<>> \/ \E i \in DOMAIN body : ~IsDigit(body[i])
        THEN [ok |-> TRUE, value |-> 0]
        ELSE [ok |-> TRUE,
              value |-> IF Head(s) = "-" THEN 0 - digits_value(body, 0)
                        ELSE digits_value(body, 0)]

\* str::parse::<i64>: an optional sign, then one decimal digit or more (the
\* ids of the model are too short to overflow)
parse_i64(s) ==
    LET body == IF s # <<>> /\ Head(s) \in {"+", "-"} THEN Tail(s) ELSE s
    IN  IF body = <<>> \/ \E i \in DOMAIN body : ~IsDigit(body[i])
        THEN [ok |-> FALSE, value |-> 0]
        ELSE [ok |-> TRUE,
              value |-> IF Head(s) = "-" THEN 0 - digits_value(body, 0)
                        ELSE digits_value(body, 0)]

\* Result<(Arc<HashMap<i64, String>>, usize, i64), String>
OkVocab(vocab, vocab_size, blank_idx) ==
    [ok |-> TRUE, vocab |-> vocab, vocab_size |-> vocab_size, blank_idx |-> blank_idx]
ErrVocab(m) == [ok |-> FALSE, err |-> m]

RECURSIVE load_lines(_, _, _)
\* stt.rs:139-153: the loop over content.lines() and the return
load_lines(lines, vocab, blank_idx) ==
    IF lines = <<>>
    THEN OkVocab(vocab, Cardinality(DOMAIN vocab), blank_idx)
    ELSE LET parts == split(trim(Head(lines)), <<>>)
         IN  IF Len(parts) >= 2
             THEN LET tok == replace(parts[1])
                      id == parse_i64(parts[2])
                  IN  IF ~id.ok
                      THEN ErrVocab("Invalid vocab ID")
                      ELSE load_lines(Tail(lines),
                                      (id.value :> tok) @@ vocab,
                                      IF parts[1] = Blk THEN id.value ELSE blank_idx)
             ELSE load_lines(Tail(lines), vocab, blank_idx)

\* SttState::load_vocab
load_vocab(file) ==
    IF ~file.readable
    THEN ErrVocab("Failed to read vocab")
    ELSE load_lines(file.lines, <<>>, 0)

NoFile == [readable |-> FALSE, lines |-> <<>>]
NotLoaded == ErrVocab("pending")

VocabIdle ==
    /\ vocab_txt = NoFile
    /\ loaded = NotLoaded

----------------------------------------------------------------------------
(* The engine mutexes under concurrent SttInference::transcribe calls: each
   snapshot holds clones of the same three Arc<Mutex<Session>> *)

Transcribers == {1, 2, 3}

\* the engines in the order transcribe locks them (stt.rs:295, 325, 368)
Engines == <<"preprocessor", "encoder", "decoder">>

Free == 0               \* a mutex nobody holds

TxIdle == [pc |-> "idle", engine |-> 0, ret |-> Err("none")]
TxAt(pc, i) == [pc |-> pc, engine |-> i, ret |-> Err("pending")]
TxDone(r) == [pc |-> "done", engine |-> 0, ret |-> r]

EnginesIdle ==
    /\ engine_guard = [i \in DOMAIN Engines |-> Free]
    /\ tx = [w \in Transcribers |-> TxIdle]

txFrame == <<audio_buffer, is_recording, preprocessor_session, encoder_session,
             decoder_session, model_status, audio, task, dl, started, pushed,
             snapshot, listener, failed, model_dir, vocab_load, snapshot_vocab>>

tx_return_leaks(w, r) ==
    /\ tx' = [tx EXCEPT ![w] = TxDone(r)]
    /\ UNCHANGED engine_guard

\* transcribe returns: its guards are dropped
tx_return(w, r) ==
    /\ tx' = [tx EXCEPT ![w] = TxDone(r)]
    /\ engine_guard' = [i \in DOMAIN Engines |->
                           IF engine_guard[i] = w THEN Free ELSE engine_guard[i]]

\* A call begins: the snapshot is taken in the locked block of the command
\* (lib.rs:255-260) and transcribe runs after the block, with no session
\* lock; empty audio returns before any engine lock (stt.rs:276-279)
tx_start(w) ==
    /\ tx[w].pc = "idle"
    /\ lock_block
    /\ \/ tx_return(w, Ok(<<>>))
       \/ /\ tx' = [tx EXCEPT ![w] = TxAt("lock", 1)]
          /\ UNCHANGED engine_guard
    /\ UNCHANGED <<poisoned, call>>

tx_lock_unguarded(w) ==
    /\ tx[w].pc = "lock"
    /\ IF snapshot \in poisoned
       THEN tx_return(w, LockError)
       ELSE /\ engine_guard' = [engine_guard EXCEPT ![tx[w].engine] = w]
            /\ tx' = [tx EXCEPT ![w] = TxAt("run", tx[w].engine)]
    /\ UNCHANGED <<poisoned, state_lock, call>>

\* Mutex::lock (stt.rs:295-298, 325, 368): waits while another call holds
\* the guard; a poisoned mutex gives "Lock error" and the call returns
tx_lock(w) ==
    /\ tx[w].pc = "lock"
    /\ engine_guard[tx[w].engine] = Free
    /\ IF snapshot \in poisoned
       THEN tx_return(w, LockError)
       ELSE /\ engine_guard' = [engine_guard EXCEPT ![tx[w].engine] = w]
            /\ tx' = [tx EXCEPT ![w] = TxAt("run", tx[w].engine)]
    /\ UNCHANGED <<poisoned, state_lock, call>>

\* Session::run of the engine just locked (stt.rs:299-304, 326-331, and the
\* loop of 370-483 for the decoder): an error returns, a panic in the loop
\* poisons the three mutexes held, success goes on to the next lock or, after
\* the decoder, to the transcript
tx_run(w) ==
    /\ tx[w].pc = "run"
    /\ UNCHANGED <<state_lock, call>>
    /\ \/ /\ tx_return(w, Err("inference"))
          /\ UNCHANGED poisoned
       \/ /\ tx[w].engine = Len(Engines)
          /\ tx_return(w, Panicked)
          /\ poisoned' = poisoned \cup {snapshot}
       \/ /\ tx[w].engine < Len(Engines)
          /\ tx' = [tx EXCEPT ![w] = TxAt("lock", tx[w].engine + 1)]
          /\ UNCHANGED <<engine_guard, poisoned>>
       \/ /\ tx[w].engine = Len(Engines)
          /\ tx_return(w, Ok(<<"a">>))
          /\ UNCHANGED poisoned

----------------------------------------------------------------------------
(* The session under its commands *)

DecodeIdle ==
    /\ inf = [vocab |-> <<>>, vocab_size |-> 0, blank_idx |-> 0]
    /\ wave = <<>>
    /\ tpc = "idle"
    /\ num_frames = 0
    /\ encoded_len = 0
    /\ t = 0
    /\ tokens = <<>>
    /\ emitted_tokens = 0
    /\ state1 = [len |-> 0, val |-> 0]
    /\ state2 = [len |-> 0, val |-> 0]
    /\ token = 0
    /\ step = 0
    /\ calls = [preprocessor |-> 0, encoder |-> 0, decoder |-> 0]
    /\ result = Err("pending")
    /\ kinds = "none"
    /\ targets = 0
    /\ frame_start = 0

SessionInit ==
    /\ SttStateNew
    /\ call = Called("new", <<>>, Ok(<<>>))
    /\ audio = <<>>
    /\ task = TaskIdle(Err("none"))
    /\ dl = [d \in Downloaders |-> DlIdle(Err("none"))]
    /\ started = FALSE
    /\ pushed = <<>>
    /\ state_lock = Unlocked
    /\ snapshot = None
    /\ snapshot_vocab = None
    /\ poisoned = {}
    /\ listener = [subscribed |-> FALSE, received |-> <<>>]
    /\ failed = FALSE

Init ==
    /\ SessionInit
    /\ DecodeIdle
    /\ EnginesIdle
    /\ outputs_flat = <<>>
    /\ VocabIdle

Next ==
    \/ stt_start_recording /\ UNCHANGED <<decodeVars, outputs_flat, vocabVars, engineVars>>
    \/ stt_push_audio /\ UNCHANGED <<decodeVars, outputs_flat, vocabVars, engineVars>>
    \/ stt_stop_and_transcribe /\ UNCHANGED <<decodeVars, outputs_flat, vocabVars, engineVars>>
    \/ transcribe_done /\ UNCHANGED <<decodeVars, outputs_flat, vocabVars, engineVars>>
    \/ stt_download_model /\ UNCHANGED <<decodeVars, outputs_flat, vocabVars, engineVars>>
    \/ stt_get_status /\ UNCHANGED <<decodeVars, outputs_flat, vocabVars, engineVars>>

Spec == Init /\ [][Next]_vars

----------------------------------------------------------------------------
(* The session under two concurrent stt_download_model calls; the audio is
   one sample at most *)

Racers == {1, 2}

stt_push_sample ==
    /\ audio_buffer = <<>>
    /\ lock_block
    /\ push_audio(<<1>>)
    /\ keeps_engines
    /\ UNCHANGED <<is_recording, preprocessor_session, encoder_session,
                   decoder_session, model_status, audio, task, dl, started,
                   listener>>

stt_download_model_race ==
    \E d \in Racers :
        \/ dl_check(d)
        \/ dl_set_downloading(d)
        \/ dl_progress(d)
        \/ dl_fetch(d)
        \/ dl_build(d)
        \/ dl_apply(d)

InitRace ==
    /\ SttStateNew
    /\ call = Called("new", <<>>, Ok(<<>>))
    /\ audio = <<>>
    /\ task = TaskIdle(Err("none"))
    /\ dl = [d \in Racers |-> DlIdle(Err("none"))]
    /\ started = FALSE
    /\ pushed = <<>>
    /\ state_lock = Unlocked
    /\ snapshot = None
    /\ snapshot_vocab = None
    /\ poisoned = {}
    /\ listener = [subscribed |-> FALSE, received |-> <<>>]
    /\ failed = FALSE
    /\ DecodeIdle
    /\ EnginesIdle
    /\ outputs_flat = <<>>
    /\ VocabIdle

NextRace ==
    \/ stt_start_recording /\ UNCHANGED <<decodeVars, outputs_flat, vocabVars, engineVars>>
    \/ stt_push_sample /\ UNCHANGED <<decodeVars, outputs_flat, vocabVars, engineVars>>
    \/ stt_stop_and_transcribe /\ UNCHANGED <<decodeVars, outputs_flat, vocabVars, engineVars>>
    \/ transcribe_done /\ UNCHANGED <<decodeVars, outputs_flat, vocabVars, engineVars>>
    \/ stt_download_model_race /\ UNCHANGED <<decodeVars, outputs_flat, vocabVars, engineVars>>

SpecRace == InitRace /\ [][NextRace]_vars

----------------------------------------------------------------------------
(* One stt_download_model caller, with a listener subscribed to the progress
   events before the first call; the listener stops following new downloads
   after MaxAttempts of them *)

\* Downloads whose first event (progress 0) the listener has received
Attempts(received) == Cardinality({i \in DOMAIN received : received[i].num = 0})

download_begin ==
    \E d \in Downloaders :
        /\ Attempts(listener.received) < MaxAttempts
        /\ dl_check(d)

download_step ==
    \E d \in Downloaders :
        \/ dl_set_downloading(d)
        \/ dl_progress(d)
        \/ dl_fetch(d)
        \/ dl_build(d)
        \/ dl_apply(d)

InitDownload ==
    /\ SttStateNew
    /\ call = Called("new", <<>>, Ok(<<>>))
    /\ audio = <<>>
    /\ task = TaskIdle(Err("none"))
    /\ dl = [d \in Downloaders |-> DlIdle(Err("none"))]
    /\ started = FALSE
    /\ pushed = <<>>
    /\ state_lock = Unlocked
    /\ snapshot = None
    /\ snapshot_vocab = None
    /\ poisoned = {}
    /\ listener = [subscribed |-> TRUE, received |-> <<>>]
    /\ failed = FALSE
    /\ DecodeIdle
    /\ EnginesIdle
    /\ outputs_flat = <<>>
    /\ VocabIdle

NextDownload ==
    \/ download_begin /\ UNCHANGED <<decodeVars, outputs_flat, vocabVars, engineVars>>
    \/ download_step /\ UNCHANGED <<decodeVars, outputs_flat, vocabVars, engineVars>>
    \/ stt_get_status /\ UNCHANGED <<decodeVars, outputs_flat, vocabVars, engineVars>>

SpecDownload == InitDownload /\ [][NextDownload]_vars


----------------------------------------------------------------------------
(* SttInference::transcribe: the arg-max of a decoder output *)

MaxDur == 3             \* most duration classes a decoder output carries
MaxVocab == 3           \* largest vocab_size SpecArgMax draws

NaN == -1               \* an f32 that partial_cmp cannot order
LogitValues == {0, 1, NaN}

\* f32::partial_cmp
partial_cmp(a, b) ==
    IF a = NaN \/ b = NaN THEN "None"
    ELSE IF a < b THEN "Less"
    ELSE IF a = b THEN "Equal"
    ELSE "Greater"

\* the comparator of both max_by calls: a.partial_cmp(b).unwrap_or(Equal)
cmp_logits(a, b) ==
    IF partial_cmp(a, b) = "None" THEN "Equal" ELSE partial_cmp(a, b)

max_by_first(s, n, a) == IF cmp_logits(s[a], s[n]) = "Less" THEN n ELSE a

\* One fold step of Iterator::max_by: the accumulator a (an index of s) meets
\* element n and is kept only when it compares Greater.
max_by_select(s, n, a) == IF cmp_logits(s[a], s[n]) = "Greater" THEN a ELSE n

RECURSIVE max_by_upto(_, _)
max_by_upto(s, n) ==
    IF n = 1 THEN 1 ELSE max_by_select(s, n, max_by_upto(s, n - 1))

\* iter().enumerate().max_by(..).map(|(i, _)| i): the 0-based index, or
\* `none` for an empty slice (the unwrap_or of the caller)
max_by(s, none) == IF s = <<>> THEN none ELSE max_by_upto(s, Len(s)) - 1

\* &outputs_flat[..vocab_size] and &outputs_flat[vocab_size..]; the slicing
\* panics when the output is shorter than vocab_size
slice_ok(out, vocab_size) == vocab_size <= Len(out)
token_logits(out, vocab_size) == SubSeq(out, 1, vocab_size)
duration_logits(out, vocab_size) == SubSeq(out, vocab_size + 1, Len(out))

best_token(out, vocab_size, blank_idx) ==
    max_by(token_logits(out, vocab_size), blank_idx)

best_step(out, vocab_size) ==
    max_by(duration_logits(out, vocab_size), 0)

\* the decoder outputs of a model with vocab_size token logits
JointOutputs(vocab_size) ==
    UNION {[1..n -> LogitValues] : n \in 0..(vocab_size + MaxDur)}

----------------------------------------------------------------------------
(* SttInference::transcribe: the decode loop *)

MaxFrames == 3          \* most encoder frames explored

NUM_LSTM_LAYERS == 2
LSTM_HIDDEN_SIZE == 640
max_tokens_per_step == 10

StateLen == NUM_LSTM_LAYERS * 1 * LSTM_HIDDEN_SIZE

\* A state tensor: its element count, and which decoder call wrote it
\* (0: the zeros of Array3::zeros)
Tensor(len, val) == [len |-> len, val |-> val]
Zeros == Tensor(StateLen, 0)

Inference(vocab, vocab_size, blank_idx) ==
    [vocab |-> vocab, vocab_size |-> vocab_size, blank_idx |-> blank_idx]

\* The snapshots SttState::inference can hand to a transcription, as
\* load_vocab leaves them: no table, a table with the blank first or last, a
\* table without a blank entry (blank_idx stays 0), a blank id outside the
\* table's range.
Inferences ==
    { Inference(<<>>, 0, 0),
      Inference(0 :> Blk @@ 1 :> <<" ", "a">>, 2, 0),
      Inference(0 :> <<"a", " ">> @@ 1 :> Blk, 2, 1),
      Inference(0 :> <<"a">>, 1, 0),
      Inference(7 :> Blk, 1, 7) }

Waves == {<<>>, <<1>>, <<1, 2>>}

RECURSIVE concat_tokens(_, _)
\* stt.rs:486-491: push the string of every token the vocabulary knows
concat_tokens(vocab, toks) ==
    IF toks = <<>> THEN <<>>
    ELSE (IF Head(toks) \in DOMAIN vocab THEN vocab[Head(toks)] ELSE <<>>)
         \o concat_tokens(vocab, Tail(toks))

RECURSIVE clean_whitespace_keeps_runs(_, _, _)
clean_whitespace_keeps_runs(text, out, gap) ==
    IF text = <<>> THEN out
    ELSE IF IsSpace(Head(text))
    THEN clean_whitespace_keeps_runs(Tail(text),
                                     out \o (IF gap /\ out # <<>> THEN <<" ">> ELSE <<>>),
                                     TRUE)
    ELSE clean_whitespace_keeps_runs(Tail(text),
                                     out \o (IF gap /\ out # <<>> THEN <<" ">> ELSE <<>>)
                                         \o <<Head(text)>>,
                                     FALSE)

RECURSIVE clean_whitespace(_, _, _)
\* stt.rs:494: trim().split_whitespace().collect().join(" "). `out` is the
\* text built so far; `gap` says whitespace was skipped since its last
\* character, so the next word is joined to it by one space.
clean_whitespace(text, out, gap) ==
    IF text = <<>> THEN out
    ELSE IF IsSpace(Head(text)) THEN clean_whitespace(Tail(text), out, TRUE)
    ELSE clean_whitespace(Tail(text),
                          out \o (IF gap /\ out # <<>> THEN <<" ">> ELSE <<>>)
                              \o <<Head(text)>>,
                          FALSE)

\* stt.rs:485-496
detokenize(vocab, toks) == clean_whitespace(concat_tokens(vocab, toks), <<>>, FALSE)

advance_by_one(tt, emitted, tok, st, blank_idx) ==
    IF st > 0 THEN [t |-> tt + 1, emitted_tokens |-> 0]
    ELSE IF tok = blank_idx \/ emitted >= max_tokens_per_step
    THEN [t |-> tt + 1, emitted_tokens |-> 0]
    ELSE [t |-> tt, emitted_tokens |-> emitted]

advance_cap_late(tt, emitted, tok, st, blank_idx) ==
    IF st > 0 THEN [t |-> tt + st, emitted_tokens |-> 0]
    ELSE IF tok = blank_idx \/ emitted > max_tokens_per_step
    THEN [t |-> tt + 1, emitted_tokens |-> 0]
    ELSE [t |-> tt, emitted_tokens |-> emitted]

advance_blank_stays(tt, emitted, tok, st, blank_idx) ==
    IF st > 0 THEN [t |-> tt + st, emitted_tokens |-> 0]
    ELSE IF emitted >= max_tokens_per_step
    THEN [t |-> tt + 1, emitted_tokens |-> 0]
    ELSE [t |-> tt, emitted_tokens |-> emitted]

\* stt.rs:473-482, the advance policy: `emitted` is the counter after the
\* step's own emission
advance(tt, emitted, tok, st, blank_idx) ==
    IF st > 0 THEN [t |-> tt + st, emitted_tokens |-> 0]
    ELSE IF tok = blank_idx \/ emitted >= max_tokens_per_step
    THEN [t |-> tt + 1, emitted_tokens |-> 0]
    ELSE [t |-> tt, emitted_tokens |-> emitted]

\* (token, step) of every decoder output that can be sliced, per vocab_size
JointResults ==
    [n \in {i.vocab_size : i \in Inferences} |->
        {<<best_token(o, n, b), best_step(o, n), b>> :
            o \in {x \in JointOutputs(n) : slice_ok(x, n)},
            b \in {i.blank_idx : i \in Inferences}}]

\* some decoder output is too short to slice
CanPanic(n) == n > 0

decodeLocals == <<t, tokens, emitted_tokens, state1, state2, token, step, kinds>>

\* History of the completed decode steps: "blank0" while each returned the
\* blank token with duration 0, "emit0" while each emitted a token with
\* duration 0, "mixed" otherwise, "none" before the first
StepKind(tok, st, blank_idx) ==
    IF st > 0 THEN "mixed" ELSE IF tok = blank_idx THEN "blank0" ELSE "emit0"

KindsAfter(k, tok, st, blank_idx) ==
    IF k \in {"none", StepKind(tok, st, blank_idx)}
    THEN StepKind(tok, st, blank_idx)
    ELSE "mixed"

Called1(c, engine) == [c EXCEPT ![engine] = @ + 1]

transcribe_start_no_shortcut ==
    /\ tpc = "start"
    /\ calls' = Called1(calls, "preprocessor")
    /\ \/ tpc' = "preprocessed" /\ UNCHANGED result
       \/ tpc' = "done" /\ result' = Err("Failed to run preprocessor")
    /\ UNCHANGED <<inf, wave, num_frames, encoded_len, targets, frame_start>>
    /\ UNCHANGED decodeLocals

\* stt.rs:276-317: the empty-audio return, else the preprocessor run
transcribe_start ==
    /\ tpc = "start"
    /\ IF wave = <<>>
       THEN /\ tpc' = "done"
            /\ result' = Ok(<<>>)
            /\ UNCHANGED calls
       ELSE /\ calls' = Called1(calls, "preprocessor")
            /\ \/ tpc' = "preprocessed" /\ UNCHANGED result
               \/ tpc' = "done" /\ result' = Err("Failed to run preprocessor")
    /\ UNCHANGED <<inf, wave, num_frames, encoded_len, targets, frame_start>>
    /\ UNCHANGED decodeLocals

\* stt.rs:319-368: the encoder run, then the loop's locals
transcribe_encode ==
    /\ tpc = "preprocessed"
    /\ calls' = Called1(calls, "encoder")
    /\ \/ /\ tpc' = "loop"
          /\ num_frames' \in 0..MaxFrames
          /\ encoded_len' \in 0..MaxFrames
          /\ state1' = Zeros
          /\ state2' = Zeros
          /\ tokens' = <<>>
          /\ t' = 0
          /\ emitted_tokens' = 0
          /\ UNCHANGED <<result, token, step, kinds>>
       \/ /\ tpc' = "done"
          /\ result' = Err("Failed to run encoder")
          /\ UNCHANGED <<num_frames, encoded_len>>
          /\ UNCHANGED decodeLocals
    /\ UNCHANGED <<inf, wave, targets, frame_start>>

in_loop_either == t < encoded_len \/ t < num_frames

\* stt.rs:370: the loop guard
in_loop == t < encoded_len /\ t < num_frames

prev_token_first ==
    IF tokens = <<>> THEN inf.blank_idx ELSE tokens[1]

\* stt.rs:381-386: the label of the decoder call. The `as i32` casts keep
\* every id of the model (an id past the i32 range would be cut to its low
\* 32 bits; no integer of the model is that large)
prev_token ==
    IF tokens = <<>> THEN inf.blank_idx ELSE tokens[Len(tokens)]

decode_body_updates_on_blank(tok, st, len1, len2) ==
    /\ token' = tok
    /\ step' = st
    /\ IF len1 # StateLen
       THEN /\ tpc' = "done"
            /\ result' = Err("State1 size mismatch")
            /\ UNCHANGED <<t, tokens, emitted_tokens, state1, state2, kinds>>
       ELSE IF len2 # StateLen
       THEN /\ tpc' = "done"
            /\ result' = Err("State2 size mismatch")
            /\ state1' = Tensor(len1, calls'.decoder)
            /\ UNCHANGED <<t, tokens, emitted_tokens, state2, kinds>>
       ELSE /\ state1' = Tensor(len1, calls'.decoder)
            /\ state2' = Tensor(len2, calls'.decoder)
            /\ tokens' = IF tok # inf.blank_idx THEN Append(tokens, tok) ELSE tokens
            /\ LET emitted == IF tok # inf.blank_idx
                              THEN emitted_tokens + 1 ELSE emitted_tokens
               IN  /\ t' = advance(t, emitted, tok, st, inf.blank_idx).t
                   /\ emitted_tokens' =
                          advance(t, emitted, tok, st, inf.blank_idx).emitted_tokens
            /\ kinds' = KindsAfter(kinds, tok, st, inf.blank_idx)
            /\ UNCHANGED <<tpc, result>>

decode_body_pushes_blank(tok, st, len1, len2) ==
    /\ token' = tok
    /\ step' = st
    /\ IF len1 # StateLen
       THEN /\ tpc' = "done"
            /\ result' = Err("State1 size mismatch")
            /\ UNCHANGED <<t, tokens, emitted_tokens, state1, state2, kinds>>
       ELSE IF len2 # StateLen
       THEN /\ tpc' = "done"
            /\ result' = Err("State2 size mismatch")
            /\ state1' = Tensor(len1, calls'.decoder)
            /\ UNCHANGED <<t, tokens, emitted_tokens, state2, kinds>>
       ELSE /\ state1' = IF tok # inf.blank_idx
                         THEN Tensor(len1, calls'.decoder) ELSE state1
            /\ state2' = IF tok # inf.blank_idx
                         THEN Tensor(len2, calls'.decoder) ELSE state2
            /\ tokens' = Append(tokens, tok)
            /\ t' = advance(t, emitted_tokens + 1, tok, st, inf.blank_idx).t
            /\ emitted_tokens' =
                   advance(t, emitted_tokens + 1, tok, st, inf.blank_idx).emitted_tokens
            /\ kinds' = KindsAfter(kinds, tok, st, inf.blank_idx)
            /\ UNCHANGED <<tpc, result>>

\* stt.rs:421-482: one pass of the loop body on a decoder output whose
\* arg-max token and duration are tok and st, and whose returned states
\* hold len1 and len2 elements
decode_body(tok, st, len1, len2) ==
    /\ token' = tok
    /\ step' = st
    /\ IF tok # inf.blank_idx
       THEN IF len1 # StateLen
            THEN /\ tpc' = "done"
                 /\ result' = Err("State1 size mismatch")
                 /\ UNCHANGED <<t, tokens, emitted_tokens, state1, state2, kinds>>
            ELSE IF len2 # StateLen
            THEN /\ tpc' = "done"
                 /\ result' = Err("State2 size mismatch")
                 /\ state1' = Tensor(len1, calls'.decoder)
                 /\ UNCHANGED <<t, tokens, emitted_tokens, state2, kinds>>
            ELSE /\ state1' = Tensor(len1, calls'.decoder)
                 /\ state2' = Tensor(len2, calls'.decoder)
                 /\ tokens' = Append(tokens, tok)
                 /\ t' = advance(t, emitted_tokens + 1, tok, st, inf.blank_idx).t
                 /\ emitted_tokens' =
                        advance(t, emitted_tokens + 1, tok, st, inf.blank_idx).emitted_tokens
                 /\ kinds' = KindsAfter(kinds, tok, st, inf.blank_idx)
                 /\ UNCHANGED <<tpc, result>>
       ELSE /\ t' = advance(t, emitted_tokens, tok, st, inf.blank_idx).t
            /\ emitted_tokens' =
                   advance(t, emitted_tokens, tok, st, inf.blank_idx).emitted_tokens
            /\ kinds' = KindsAfter(kinds, tok, st, inf.blank_idx)
            /\ UNCHANGED <<tpc, result, tokens, state1, state2>>

\* stt.rs:370-483: one decoder call and what the loop does with its output
transcribe_decode ==
    /\ tpc = "loop"
    /\ in_loop
    /\ calls' = Called1(calls, "decoder")
    /\ \/ /\ tpc' = "done"
          /\ result' = Err("Failed to run decoder")
          /\ UNCHANGED decodeLocals
       \/ /\ CanPanic(inf.vocab_size)
          /\ tpc' = "done"
          /\ result' = Err("panicked")
          /\ UNCHANGED decodeLocals
       \/ \E r \in JointResults[inf.vocab_size], len1, len2 \in {StateLen, StateLen - 1} :
            /\ r[3] = inf.blank_idx
            /\ decode_body(r[1], r[2], len1, len2)
    /\ targets' = prev_token
    /\ frame_start' = IF t' # t THEN Len(tokens') ELSE frame_start
    /\ UNCHANGED <<inf, wave, num_frames, encoded_len>>

\* stt.rs:485-496: the loop has ended
transcribe_finish ==
    /\ tpc = "loop"
    /\ ~in_loop
    /\ tpc' = "done"
    /\ result' = Ok(detokenize(inf.vocab, tokens))
    /\ UNCHANGED <<inf, wave, num_frames, encoded_len, calls, targets, frame_start>>
    /\ UNCHANGED decodeLocals

\* The session while one transcription is looked at on its own
SessionParked ==
    /\ audio_buffer = <<>>
    /\ is_recording = FALSE
    /\ preprocessor_session = InitHandle
    /\ encoder_session = InitHandle
    /\ decoder_session = InitHandle
    /\ model_status = Ready
    /\ model_dir = ModelFiles
    /\ call = Called("stop_and_transcribe", <<>>, Ok(<<>>))
    /\ audio = wave
    /\ task = TaskRunning
    /\ dl = [d \in Downloaders |-> DlIdle(Err("none"))]
    /\ started = (wave # <<>>)
    /\ pushed = wave
    /\ state_lock = Unlocked
    /\ snapshot = InitHandle
    /\ vocab_load = InitHandle
    /\ snapshot_vocab = InitHandle
    /\ poisoned = {}
    /\ listener = [subscribed |-> FALSE, received |-> <<>>]
    /\ failed = FALSE

InitDecode ==
    /\ inf \in Inferences
    /\ wave \in Waves
    /\ tpc = "start"
    /\ num_frames = 0
    /\ encoded_len = 0
    /\ t = 0
    /\ tokens = <<>>
    /\ emitted_tokens = 0
    /\ state1 = Zeros
    /\ state2 = Zeros
    /\ token = 0
    /\ step = 0
    /\ calls = [preprocessor |-> 0, encoder |-> 0, decoder |-> 0]
    /\ result = Err("pending")
    /\ kinds = "none"
    /\ targets = 0
    /\ frame_start = 0
    /\ outputs_flat = <<>>
    /\ VocabIdle
    /\ SessionParked
    /\ EnginesIdle

NextDecode ==
    \/ transcribe_start /\ UNCHANGED <<sessionVars, outputs_flat, vocabVars, engineVars>>
    \/ transcribe_encode /\ UNCHANGED <<sessionVars, outputs_flat, vocabVars, engineVars>>
    \/ transcribe_decode /\ UNCHANGED <<sessionVars, outputs_flat, vocabVars, engineVars>>
    \/ transcribe_finish /\ UNCHANGED <<sessionVars, outputs_flat, vocabVars, engineVars>>

SpecDecode == InitDecode /\ [][NextDecode]_vars

----------------------------------------------------------------------------
(* Concurrent transcribe calls, one per member of Transcribers, on the
   engines SttState::new loaded, and get_status calls beside them *)

InitEngines ==
    /\ engine_guard = [i \in DOMAIN Engines |-> Free]
    /\ tx = [w \in Transcribers |-> TxIdle]
    /\ inf = Inference(0 :> Blk @@ 1 :> <<" ", "a">>, 2, 0)
    /\ wave = <<1>>
    /\ tpc = "idle"
    /\ num_frames = 0
    /\ encoded_len = 0
    /\ t = 0
    /\ tokens = <<>>
    /\ emitted_tokens = 0
    /\ state1 = [len |-> 0, val |-> 0]
    /\ state2 = [len |-> 0, val |-> 0]
    /\ token = 0
    /\ step = 0
    /\ calls = [preprocessor |-> 0, encoder |-> 0, decoder |-> 0]
    /\ result = Err("pending")
    /\ kinds = "none"
    /\ targets = 0
    /\ frame_start = 0
    /\ outputs_flat = <<>>
    /\ VocabIdle
    /\ SessionParked

TxStart(w) == tx_start(w) /\ UNCHANGED <<txFrame, decodeVars, outputs_flat, vocabVars>>
TxLock(w) == tx_lock(w) /\ UNCHANGED <<txFrame, decodeVars, outputs_flat, vocabVars>>
TxRun(w) == tx_run(w) /\ UNCHANGED <<txFrame, decodeVars, outputs_flat, vocabVars>>

NextEngines ==
    \/ \E w \in Transcribers : TxStart(w)
    \/ \E w \in Transcribers : TxLock(w)
    \/ \E w \in Transcribers : TxRun(w)
    \/ stt_get_status /\ UNCHANGED <<decodeVars, outputs_flat, vocabVars, engineVars>>

SpecEngines == InitEngines /\ [][NextEngines]_vars

\* Engine calls return, and a Mutex::lock on a mutex that stays free returns
SpecEnginesFair ==
    /\ SpecEngines
    /\ \A w \in Transcribers : WF_vars(TxLock(w)) /\ WF_vars(TxRun(w))

----------------------------------------------------------------------------
(* The decode loop over one encoder frame, with a vocabulary of two entries
   whose blank id is outside the decoder's range, so that both ids the
   decoder can return are tokens: the state transcribe is in when its
   encoder has returned one frame *)

LabelInference == Inference(0 :> <<"a">> @@ 7 :> Blk, 2, 7)

InitLabel ==
    /\ inf = LabelInference
    /\ wave = <<1>>
    /\ tpc = "loop"
    /\ num_frames = 1
    /\ encoded_len = 1
    /\ t = 0
    /\ tokens = <<>>
    /\ emitted_tokens = 0
    /\ state1 = Zeros
    /\ state2 = Zeros
    /\ token = 0
    /\ step = 0
    /\ calls = [preprocessor |-> 1, encoder |-> 1, decoder |-> 0]
    /\ result = Err("pending")
    /\ kinds = "none"
    /\ targets = 0
    /\ frame_start = 0
    /\ outputs_flat = <<>>
    /\ VocabIdle
    /\ SessionParked
    /\ EnginesIdle

NextLabel ==
    \/ transcribe_decode /\ UNCHANGED <<sessionVars, outputs_flat, vocabVars, engineVars>>
    \/ transcribe_finish /\ UNCHANGED <<sessionVars, outputs_flat, vocabVars, engineVars>>

SpecLabel == InitLabel /\ [][NextLabel]_vars

----------------------------------------------------------------------------
(* The arg-max of stt.rs:423-449 on its own: one decoder output, sliced and
   reduced as the loop does *)

InitArgMax ==
    /\ \E n \in 0..MaxVocab, b \in 0..MaxVocab :
          /\ b <= n
          /\ inf = Inference(<<>>, n, b)
          /\ outputs_flat \in {o \in JointOutputs(n) : slice_ok(o, n)}
    /\ VocabIdle
    /\ wave = <<1>>
    /\ tpc = "decoded"
    /\ num_frames = 1
    /\ encoded_len = 1
    /\ t = 0
    /\ tokens = <<>>
    /\ emitted_tokens = 0
    /\ state1 = Zeros
    /\ state2 = Zeros
    /\ token = 0
    /\ step = 0
    /\ calls = [preprocessor |-> 1, encoder |-> 1, decoder |-> 1]
    /\ result = Err("pending")
    /\ kinds = "none"
    /\ targets = 0
    /\ frame_start = 0
    /\ SessionParked
    /\ EnginesIdle

\* stt.rs:423-449
choose_token_and_step ==
    /\ tpc = "decoded"
    /\ token' = best_token(outputs_flat, inf.vocab_size, inf.blank_idx)
    /\ step' = best_step(outputs_flat, inf.vocab_size)
    /\ tpc' = "chosen"
    /\ UNCHANGED <<inf, wave, num_frames, encoded_len, t, tokens, emitted_tokens,
                   state1, state2, calls, result, kinds, targets, frame_start>>

NextArgMax == choose_token_and_step /\ UNCHANGED <<sessionVars, outputs_flat, vocabVars, engineVars>>

SpecArgMax == InitArgMax /\ [][NextArgMax]_vars

----------------------------------------------------------------------------
(* load_vocab on its own: one vocab.txt, read once *)

\* Lines a vocab.txt can hold: entries of the blank and of tokens with the
\* marker, an id that is no integer, one column only, nothing, two spaces
\* between the columns, spaces around the line, a third column, a signed id,
\* and a tab between the columns
VocabLines ==
    { Blk \o <<" ", "0">>,
      Blk \o <<" ", "1">>,
      <<Marker, "a", " ", "1">>,
      <<"a", Marker, Marker, " ", "2">>,
      <<"b", " ", "1">>,
      <<"a", " ", "x">>,
      <<"a">>,
      Blk,
      <<>>,
      <<"a", " ", " ", "1">>,
      <<" ", Marker, " ", "1", "0", " ">>,
      <<"a", " ", "1", " ", "z">>,
      <<"a", " ", "-", "1">>,
      <<"a", "\t", "1">> }

VocabFiles ==
    {NoFile} \cup {[readable |-> TRUE, lines |-> l] : l \in SeqsUpTo(VocabLines, MaxLines)}

InitVocab ==
    /\ vocab_txt \in VocabFiles
    /\ loaded = NotLoaded
    /\ SessionInit
    /\ DecodeIdle
    /\ EnginesIdle
    /\ outputs_flat = <<>>

load_vocab_call ==
    /\ loaded = NotLoaded
    /\ loaded' = load_vocab(vocab_txt)
    /\ UNCHANGED vocab_txt

NextVocab == load_vocab_call /\ UNCHANGED <<sessionVars, decodeVars, outputs_flat, engineVars>>

SpecVocab == InitVocab /\ [][NextVocab]_vars

----------------------------------------------------------------------------
(* The detokenizer on its own: the decode loop has ended with some tokens *)

\* A vocabulary whose strings begin, end or consist of whitespace; id 4 has
\* the empty string and id 9 is not in the table
DetokVocab ==
    0 :> <<" ", "a">> @@ 1 :> <<"b">> @@ 2 :> <<" ">> @@ 3 :> <<"\t", "\n", "c", " ">>
      @@ 4 :> <<>>

DetokTokens == {0, 1, 2, 3, 4, 9}

InitDetok ==
    /\ inf = Inference(DetokVocab, 5, 4)
    /\ wave = <<1>>
    /\ tpc = "loop"
    /\ num_frames = 1
    /\ encoded_len = 1
    /\ t = 1
    /\ tokens \in SeqsUpTo(DetokTokens, MaxToks)
    /\ emitted_tokens = 0
    /\ state1 = Zeros
    /\ state2 = Zeros
    /\ token = 4
    /\ step = 1
    /\ calls = [preprocessor |-> 1, encoder |-> 1, decoder |-> 1]
    /\ result = Err("pending")
    /\ kinds = "none"
    /\ targets = 0
    /\ frame_start = 0
    /\ outputs_flat = <<>>
    /\ VocabIdle
    /\ SessionParked
    /\ EnginesIdle

NextDetok == transcribe_finish /\ UNCHANGED <<sessionVars, outputs_flat, vocabVars, engineVars>>

SpecDetok == InitDetok /\ [][NextDetok]_vars



----------------------------------------------------------------------------
(* Properties of the recording session *)

NotLoadedErrors == {"Preprocessor not loaded", "Encoder not loaded", "Decoder not loaded"}

\* C1: start_recording fails with NotReady in every model_status other than
\* Ready (NotDownloaded, Downloading, Error) and then leaves the audio buffer
\* and the recording flag as they were; in Ready it succeeds, clears the
\* buffer and puts the session in Recording. (SpecRace)
C1_StartRecordingGate ==
    [][stt_start_recording =>
          IF model_status.type \in {"NotDownloaded", "Downloading", "Error"}
          THEN /\ call'.ret = Err(ErrNotReady)
               /\ audio_buffer' = audio_buffer
               /\ is_recording' = is_recording
          ELSE /\ model_status.type = "Ready"
               /\ call'.ret.ok
               /\ audio_buffer' = <<>>
               /\ is_recording']_vars

\* start_recording was refused during a download that a second, concurrent
\* stt_download_model call began after the first made the model Ready: the
\* session is still Recording and its buffer still holds a sample
C1_Witness ==
    /\ call.op = "start_recording"
    /\ call.ret = Err(ErrNotReady)
    /\ model_status.type = "Downloading"
    /\ is_recording
    /\ audio_buffer = <<1>>

\* C2: push_audio fails with NotRecording whenever the session is not
\* Recording and then leaves the buffer as it was; in Recording it appends
\* the samples at the end of the buffer, in order, and changes nothing else
\* of the session. (Spec, as C3, C4 and C5)
C2_PushAudio ==
    [][stt_push_audio =>
          /\ IF ~is_recording
             THEN /\ call'.ret = Err(ErrNotRecording)
                  /\ audio_buffer' = audio_buffer
             ELSE /\ call'.ret.ok
                  /\ audio_buffer' = audio_buffer \o call'.arg
          /\ UNCHANGED <<is_recording, model_status, preprocessor_session,
                         encoder_session, decoder_session>>]_vars

\* two samples were pushed onto a buffer that already held one
C2_Witness ==
    /\ call.op = "push_audio"
    /\ call.ret.ok
    /\ Len(call.arg) = 2
    /\ Len(audio_buffer) = 3
    /\ audio_buffer[2] # audio_buffer[3]

\* C3, as claimed: stop_and_transcribe called without a prior successful
\* start_recording fails with NotRecording.
C3_StopFailsNotRecording ==
    (call.op = "stop_and_transcribe" /\ ~started) => call.ret = Err(ErrNotRecording)

\* C3, amended: stop_and_transcribe called without a prior successful
\* start_recording never fails with NotRecording: stop_recording returns
\* empty audio, and the command returns the empty transcript when the engines
\* are loaded and the not-loaded error of inference() when they are not.
C3_StopWithoutStart ==
    (call.op = "stop_and_transcribe" /\ ~started) =>
        /\ audio = <<>>
        /\ ~is_recording
        /\ (preprocessor_session = None => ~call.ret.ok)
        /\ IF call.ret.ok
           THEN /\ preprocessor_session # None
                /\ task.pc = "running" \/ task.ret = Ok(<<>>)
           ELSE /\ call.ret.err \in NotLoadedErrors
                /\ task = TaskIdle(call.ret)

\* a stop with no start before it has returned the empty transcript
C3_Witness ==
    /\ call.op = "stop_and_transcribe"
    /\ ~started
    /\ task = TaskIdle(Ok(<<>>))

\* C4: stop_recording, from any state, leaves the session Idle with an empty
\* buffer and returns the buffer's previous contents; a stop that follows a
\* stop with no command between them returns the empty sequence.
C4_StopDrains ==
    [][stt_stop_and_transcribe =>
          /\ ~is_recording'
          /\ audio_buffer' = <<>>
          /\ audio' = audio_buffer
          /\ (call.op = "stop_and_transcribe" => audio' = <<>>)]_vars

\* a stop in Recording returned a full buffer and left the session Idle
C4_Witness ==
    /\ call.op = "stop_and_transcribe"
    /\ Len(audio) = MaxBuf
    /\ audio_buffer = <<>>
    /\ ~is_recording

\* C5, as claimed: the audio stop_recording returns is the concatenation of
\* the samples accepted since the most recent successful start_recording.
C5_StopReturnsPushedSinceStart ==
    call.op = "stop_and_transcribe" => audio = pushed

\* C5, amended: the audio stop_recording returns is the concatenation, in call
\* order, of the samples of the push_audio calls accepted since the most
\* recent successful start_recording and not already returned by an earlier
\* stop_recording (a stop in Idle returns nothing).
C5_StopReturnsSession ==
    [][stt_stop_and_transcribe =>
          audio' = IF is_recording THEN pushed ELSE <<>>]_vars

\* a stop returned the samples of two pushes of a second session
C5_Witness ==
    /\ call.op = "stop_and_transcribe"
    /\ audio = <<1, 2, 1>>
    /\ pushed = audio
    /\ task.pc = "running"
    /\ dl[1].ret.ok


----------------------------------------------------------------------------
(* Properties of SttInference::transcribe *)

NoEngineCalls == calls = [preprocessor |-> 0, encoder |-> 0, decoder |-> 0]

\* C6: transcribing empty audio yields the empty transcript and makes no
\* preprocessor, encoder or decoder-joint invocation. (SpecDecode)
C6_EmptyAudio ==
    wave = <<>> => /\ NoEngineCalls
                   /\ tpc = "done" => result = Ok(<<>>)

\* transcribe has returned for an empty audio
C6_Witness == wave = <<>> /\ tpc = "done" /\ result.ok

Comparable(s) == \A i \in 1..Len(s) : s[i] # NaN
IsMaxAt(s, i) == i \in 1..Len(s) /\ \A j \in 1..Len(s) : s[j] <= s[i]
TokenLogits == token_logits(outputs_flat, inf.vocab_size)

CompletedStep == calls'.decoder = calls.decoder + 1 /\ tpc' = "loop"

\* C8: at every completed decode step whose duration arg-max d is greater
\* than 0, t advances by exactly d and the same-step counter is reset to 0,
\* whether the token is blank (nothing is appended) or not (it is appended).
\* (SpecDecode)
C8_DurationDominance ==
    [][(CompletedStep /\ step' > 0) =>
          /\ t' = t + step'
          /\ emitted_tokens' = 0
          /\ tokens' = IF token' = inf.blank_idx THEN tokens ELSE Append(tokens, token')]_vars

\* the first step emitted a token with duration 2 and moved t from 0 to 2
C8_Witness ==
    /\ tpc = "loop"
    /\ calls.decoder = 1
    /\ step = 2
    /\ token # inf.blank_idx
    /\ tokens = <<token>>
    /\ t = 2
    /\ emitted_tokens = 0

\* C9: while every decode step has duration 0 and a non-blank token, t stays
\* where it is for the first 9 emissions at a frame and advances by exactly 1
\* on the 10th, with the counter back at 0: after n such steps t is n \div 10
\* and the counter n % 10. (SpecDecode)
C9_SameStepCap ==
    (kinds = "emit0" /\ (tpc = "loop" \/ result.ok)) =>
        /\ Len(tokens) = calls.decoder
        /\ t = calls.decoder \div 10
        /\ emitted_tokens = calls.decoder % 10

\* the 10th emission at frame 0 has just moved t to frame 1
C9_Witness ==
    /\ kinds = "emit0"
    /\ tpc = "loop"
    /\ calls.decoder = 10
    /\ t = 1
    /\ emitted_tokens = 0

Min(a, b) == IF a < b THEN a ELSE b

\* C10: while the pipeline returns only the blank token (and no positive
\* duration), no token is emitted and t advances by exactly 1 on every step;
\* the loop ends after exactly min(encoded_len, num_frames) decoder calls and
\* the transcript is empty. (SpecDecode)
C10_AlwaysBlank ==
    (kinds \in {"none", "blank0"} /\ wave # <<>>) =>
        /\ tokens = <<>>
        /\ tpc = "loop" => t = calls.decoder /\ t <= Min(encoded_len, num_frames)
        /\ (tpc = "done" /\ result.ok) =>
              /\ result = Ok(<<>>)
              /\ calls.decoder = Min(encoded_len, num_frames)

\* an all-blank run over MaxFrames frames has ended
C10_Witness ==
    /\ kinds = "blank0"
    /\ tpc = "done"
    /\ result.ok
    /\ calls.decoder = MaxFrames
    /\ num_frames = MaxFrames

----------------------------------------------------------------------------
(* Properties of the model download *)

\* Two progress values are the same number
SameProgress(p, q) == p.num * q.den = q.num * p.den

\* The events of the latest download: from the last progress 0 on
LatestDownload(received) ==
    LET zeros == {i \in DOMAIN received : received[i].num = 0}
    IN  IF zeros = {} THEN <<>>
        ELSE LET first == CHOOSE i \in zeros : \A j \in zeros : j <= i
             IN  SubSeq(received, first, Len(received))

\* C12: a download that fetches all six files and builds the engines has
\* emitted, by the time it commits, exactly the seven progress values 0, 1/6,
\* 2/6, 3/6, 4/6, 5/6, 1 in this order, each in [0,1] and none smaller than
\* the one before, and it ends with model_status Ready. (SpecDownload)
C12_DownloadProgress ==
    [][\A d \in Downloaders :
          dl_apply(d) =>
              LET log == LatestDownload(listener'.received)
              IN  /\ Len(log) = NumModelFiles + 1
                  /\ \A i \in DOMAIN log :
                        /\ SameProgress(log[i], Progress(i - 1, NumModelFiles))
                        /\ 0 <= log[i].num /\ log[i].num <= log[i].den
                        /\ i > 1 => log[i-1].num * log[i].den <= log[i].num * log[i-1].den
                  /\ model_status' = Ready
                  /\ dl'[d] = DlIdle(Ok(<<>>))]_vars

\* the first download the listener saw went through: the seven events are
\* all it has received, and the model is Ready
C12_Witness ==
    /\ dl[1] = DlIdle(Ok(<<>>))
    /\ model_status = Ready
    /\ preprocessor_session # None
    /\ listener.received = [i \in 1..6 |-> Progress(i - 1, 6)] \o <<Progress(1, 1)>>

\* C13: a stt_download_model call that begins while model_status is Ready
\* and the engines are loaded returns Ok at once: model_status, the three
\* engine handles and the listener's events are as before and the call is
\* not past its check (no fetch, no build). Repeating it changes nothing.
\* (SpecDownload)
C13_DownloadIdempotent ==
    [][\A d \in Downloaders :
          ( /\ dl[d].pc = "idle" /\ dl'[d] # dl[d]
            /\ model_status = Ready
            /\ preprocessor_session # None
            /\ encoder_session # None
            /\ decoder_session # None )
          => /\ dl'[d] = DlIdle(Ok(<<>>))
             /\ UNCHANGED <<model_status, preprocessor_session, encoder_session,
                            decoder_session, listener>>]_vars

\* the engines SttState::new loaded are in place, a download call has
\* returned Ok and no progress event was ever emitted
C13_Witness ==
    /\ dl[1] = DlIdle(Ok(<<>>))
    /\ model_status = Ready
    /\ preprocessor_session = InitHandle
    /\ listener.subscribed
    /\ listener.received = <<>>

EnginesLoaded ==
    /\ preprocessor_session # None
    /\ encoder_session # None
    /\ decoder_session # None

\* C14: no step takes model_status from Ready to Downloading while the
\* engine handles are loaded, whatever the interleaving of the commands and
\* of two concurrent stt_download_model calls. (SpecRace)
C14_ReadyNeverDownloading ==
    [][~ ( /\ model_status = Ready
           /\ EnginesLoaded
           /\ model_status'.type = "Downloading" )]_vars

\* The errors download_models returns when a fetch or the build fails
DownloadFailures == {Err("Failed to download"), Err("Failed to load models")}

\* C15: when a download call returns because a fetch or the model build
\* failed, model_status is Error; and model_status leaves Error only by the
\* step of a download call that sets Downloading. (SpecDownload)
C15_FailureSetsError ==
    [][/\ \A d \in Downloaders :
            (dl[d].pc # "idle" /\ dl'[d].pc = "idle" /\ dl'[d].ret \in DownloadFailures)
            => model_status'.type = "Error"
       /\ (model_status.type = "Error" /\ model_status'.type # "Error")
            => \E d \in Downloaders : dl_set_downloading(d)]_vars

----------------------------------------------------------------------------
(* Properties of the session around a transcription *)

\* C16: a transcription that ends with an error of an engine or of the
\* recurrent-state size check changes neither model_status nor the engine
\* handles nor the state of the engines' mutexes: afterwards model_status is
\* Ready (start_recording succeeds), the three handles are loaded
\* (inference() succeeds) and the engines are not poisoned unless they were
\* before. (Spec)
C16_FailedTranscriptionKeepsEngines ==
    [][(task.pc = "running" /\ task'.pc = "idle" /\ task'.ret \in EngineErrors)
          => /\ UNCHANGED <<model_status, preprocessor_session, encoder_session,
                            decoder_session>>
             /\ model_status' = Ready
             /\ EnginesLoaded'
             /\ poisoned' = poisoned
             /\ preprocessor_session' \notin poisoned']_vars

\* after a transcription had failed with such an error, a later
\* stop_and_transcribe of a recorded sample returned a transcript
C16_Witness ==
    /\ failed
    /\ call.op = "stop_and_transcribe"
    /\ audio # <<>>
    /\ task = TaskIdle(Ok(<<"a">>))
    /\ model_status = Ready

\* A download is fetching or building, or a transcription is running
LongOperation ==
    \/ \E d \in Downloaders : dl[d].pc \in {"fetch", "build"}
    \/ task.pc = "running"

\* C17: while a download is fetching a file or building the engines, or a
\* transcription is running, nobody holds the lock of the shared session,
\* and stt_get_status can take it and return. (Spec)
C17_LockFreeDuringLongOps ==
    LongOperation => (state_lock = Unlocked /\ ENABLED stt_get_status)

\* the download is at the fetch of its fourth file and the last command,
\* stt_get_status, returned the Downloading status of that file
C17_Witness ==
    /\ dl[1] = DlAt("fetch", 3)
    /\ call.op = "get_status"
    /\ call.ret = Ok(<<Downloading(3), FALSE>>)

----------------------------------------------------------------------------
(* Properties of the vocabulary and of the detokenizer *)

\* The columns of line i of vocab.txt
Parts(i) == split(trim(vocab_txt.lines[i]), <<>>)

\* s is an integer in decimal digits, with or without a sign
IsInteger(s) ==
    LET first == IF s # <<>> /\ s[1] \in {"+", "-"} THEN 2 ELSE 1
    IN  /\ first <= Len(s)
        /\ \A k \in first..Len(s) : IsDigit(s[k])

\* Line i is an entry: a token column and an id column that is an integer
IsEntry(i) == Len(Parts(i)) >= 2 /\ IsInteger(Parts(i)[2])

EntryId(i) == parse_i64(Parts(i)[2]).value

\* C18: after a successful load of a table, the blank id is the id of the
\* table's (last) entry whose token is <blk>, and the string stored for an
\* id is the token of the table's (last) entry with that id with every
\* marker character replaced by a space; no stored string holds a marker.
\* (SpecVocab)
C18_VocabBlankAndMarker ==
    loaded.ok =>
        /\ \A i \in DOMAIN vocab_txt.lines :
              ( /\ IsEntry(i) /\ Parts(i)[1] = Blk
                /\ \A j \in DOMAIN vocab_txt.lines :
                      (j > i /\ IsEntry(j)) => Parts(j)[1] # Blk )
              => loaded.blank_idx = EntryId(i)
        /\ \A i \in DOMAIN vocab_txt.lines :
              ( /\ IsEntry(i)
                /\ \A j \in DOMAIN vocab_txt.lines :
                      (j > i /\ IsEntry(j)) => EntryId(j) # EntryId(i) )
              => /\ EntryId(i) \in DOMAIN loaded.vocab
                 /\ Len(loaded.vocab[EntryId(i)]) = Len(Parts(i)[1])
                 /\ \A k \in DOMAIN Parts(i)[1] :
                       loaded.vocab[EntryId(i)][k] =
                           IF Parts(i)[1][k] = Marker THEN " " ELSE Parts(i)[1][k]
        /\ \A id \in DOMAIN loaded.vocab :
              \A k \in DOMAIN loaded.vocab[id] : loaded.vocab[id][k] # Marker

\* a table with a token of two markers at id 2 and the blank at id 1 was
\* loaded: the blank id is 1 and id 2 holds "a" and two spaces
C18_Witness ==
    /\ vocab_txt.lines = << <<"a", Marker, Marker, " ", "2">>, Blk \o <<" ", "1">> >>
    /\ loaded.ok
    /\ loaded.blank_idx = 1
    /\ loaded.vocab[2] = <<"a", " ", " ">>
    /\ loaded.vocab[1] = Blk

\* A line that is neither empty nor a token column followed by an integer
\* id column (further columns allowed)
Malformed(i) == trim(vocab_txt.lines[i]) # <<>> /\ ~IsEntry(i)

TokenString(id) == IF id \in DOMAIN inf.vocab THEN inf.vocab[id] ELSE <<>>

RECURSIVE Concatenation(_)
\* The strings of the first n emitted tokens, one after the other
Concatenation(n) ==
    IF n = 0 THEN <<>> ELSE Concatenation(n - 1) \o TokenString(tokens[n])

\* Where the words of a text begin: a character that is not whitespace, at
\* the start of the text or after whitespace
WordStarts(text) ==
    {i \in DOMAIN text : ~IsSpace(text[i]) /\ (i = 1 \/ IsSpace(text[i-1]))}

\* The word that begins at i: up to the next whitespace or the end
WordFrom(text, i) ==
    LET ends == {j \in i..Len(text) :
                    /\ \A k \in i..j : ~IsSpace(text[k])
                    /\ (j = Len(text) \/ IsSpace(text[j+1]))}
    IN  SubSeq(text, i, CHOOSE j \in ends : TRUE)

\* The words of a text, in order
Words(text) ==
    LET starts == WordStarts(text)
        nth(n) == CHOOSE i \in starts : Cardinality({j \in starts : j < i}) = n - 1
    IN  [n \in 1..Cardinality(starts) |-> WordFrom(text, nth(n))]

\* C20: the transcript has the words of the concatenation of the emitted
\* tokens' vocabulary strings, in order; its only whitespace is one space
\* between two words, none at either end; and the clean-up applied to the
\* transcript returns the transcript. (SpecDetok)
C20_Detokenize ==
    tpc = "done" =>
        LET raw == Concatenation(Len(tokens))
            text == result.text
        IN  /\ result.ok
            /\ Words(text) = Words(raw)
            /\ \A k \in DOMAIN text :
                  IsSpace(text[k]) =>
                      /\ text[k] = " "
                      /\ 1 < k /\ k < Len(text)
                      /\ ~IsSpace(text[k-1])
            /\ clean_whitespace(text, <<>>, FALSE) = text

\* the tokens "\t\nc ", " " and " a" were emitted: the transcript is "c a"
C20_Witness ==
    /\ tpc = "done"
    /\ tokens = <<3, 2, 0>>
    /\ result = Ok(<<"c", " ", "a">>)

----------------------------------------------------------------------------
(* Properties of the decode loop's state *)

\* A decoder call was made
DecoderCall == calls'.decoder = calls.decoder + 1

\* C21: the loop is entered with both recurrent states all zero; a completed
\* step that emits a non-blank token leaves both states as the decoder
\* returned them on that step; a completed blank step leaves both as they
\* were. (SpecDecode)
C21_RecurrentState ==
    [][/\ (tpc # "loop" /\ tpc' = "loop") => (state1' = Zeros /\ state2' = Zeros)
       /\ CompletedStep =>
             IF token' # inf.blank_idx
             THEN /\ tokens' = Append(tokens, token')
                  /\ state1' = Tensor(StateLen, calls'.decoder)
                  /\ state2' = Tensor(StateLen, calls'.decoder)
             ELSE /\ tokens' = tokens
                  /\ UNCHANGED <<state1, state2>>]_vars

\* the first step emitted a token and the second was blank: the states are
\* those the first decoder call returned
C21_Witness ==
    /\ tpc = "loop"
    /\ calls.decoder = 2
    /\ Len(tokens) = 1
    /\ token = inf.blank_idx
    /\ state1 = Tensor(StateLen, 1)
    /\ state2 = Tensor(StateLen, 1)

\* C22: the label fed to a decoder call is the blank id when no token has
\* been emitted before the call, and otherwise the last token emitted
\* before it. (SpecLabel)
C22_PrevToken ==
    [][DecoderCall =>
          targets' = IF Len(tokens) = 0 THEN inf.blank_idx ELSE tokens[Len(tokens)]]_vars

\* two different tokens were emitted, and the third call was fed the second
C22_Witness ==
    /\ calls.decoder = 3
    /\ Len(tokens) >= 2
    /\ tokens[1] # tokens[2]
    /\ targets = tokens[2]
    /\ targets # inf.blank_idx

\* C23: the loop has made at most 10 decoder calls per frame it has passed
\* plus one per emission at the current frame, of which there are at most
\* 9: never more than 10 * min(encoded_len, num_frames) calls, and never
\* more tokens than calls. (SpecDecode)
C23_LoopBound ==
    tpc \in {"loop", "done"} =>
        /\ calls.decoder <= 10 * Min(encoded_len, num_frames)
        /\ Len(tokens) <= calls.decoder
        /\ tpc = "loop" =>
              /\ emitted_tokens <= 9
              /\ calls.decoder <= 10 * t + emitted_tokens

\* ten emissions at each of MaxFrames frames: the loop has ended after
\* 10 * MaxFrames decoder calls and as many tokens
C23_Witness ==
    /\ tpc = "done"
    /\ result.ok
    /\ num_frames = MaxFrames
    /\ encoded_len = MaxFrames
    /\ calls.decoder = 10 * MaxFrames
    /\ Len(tokens) = 10 * MaxFrames

\* C24: a decoder call is made only with t below both encoded_len and
\* num_frames; no step of the loop lowers t; and a step that raises t
\* leaves the same-step counter at 0. (SpecDecode)
C24_FramePointer ==
    [][/\ DecoderCall => (t < encoded_len /\ t < num_frames)
       /\ (tpc = "loop" /\ tpc' \in {"loop", "done"}) =>
             /\ t' >= t
             /\ t' > t => emitted_tokens' = 0]_vars

\* after two emissions at frame 0 a step of duration 2 moved t to 2, below
\* encoded_len = 3, and reset the counter
C24_Witness ==
    /\ tpc = "loop"
    /\ encoded_len = 3
    /\ num_frames = 3
    /\ calls.decoder = 3
    /\ Len(tokens) >= 2
    /\ step = 2
    /\ t = 2
    /\ emitted_tokens = 0

----------------------------------------------------------------------------
(* Properties of a download's files and events *)

\* The download call d has taken its step at download_file
FetchStep(d) == dl[d].pc = "fetch" /\ dl'[d] # dl[d]

\* C25: a download is at file k only with files 1..k-1 of the manifest on
\* disk, and builds engines only with all of them there. A fetch touches no
\* file but its own and removes none. A fetch that succeeds moves the call
\* to the next file; one that fails ends the call with the error, with the
\* status, the engine handles and the listener's events as they were, the
\* status not Ready, and the call ready to be made again. (SpecDownload)
C25_FailedDownloadStops ==
    [][\A d \in Downloaders :
        /\ dl'[d].pc \in {"file", "fetch"} => 1..dl'[d].downloaded \subseteq model_dir'
        /\ dl'[d].pc \in {"build", "apply"} =>
              (dl'[d].downloaded = NumModelFiles /\ model_dir' = 1..NumModelFiles)
        /\ FetchStep(d) =>
              /\ model_dir \subseteq model_dir'
              /\ model_dir' \ model_dir \subseteq {dl[d].downloaded + 1}
              /\ IF dl'[d].ret = Err("pending")
                 THEN /\ dl'[d].downloaded = dl[d].downloaded + 1
                      /\ (dl[d].downloaded + 1) \in model_dir'
                 ELSE /\ dl'[d].pc = "idle"
                      /\ ~dl'[d].ret.ok
                      /\ model_status' = model_status
                      /\ model_status'.type # "Ready"
                      /\ preprocessor_session' = preprocessor_session
                      /\ encoder_session' = encoder_session
                      /\ decoder_session' = decoder_session
                      /\ listener' = listener]_vars

\* a first download failed at its third file, leaving the first two on disk
\* and no more than the third; a second download then fetched all six and
\* made the model Ready
C25_Witness ==
    /\ model_status = Ready
    /\ model_dir = 1..NumModelFiles
    /\ dl[1] = DlIdle(Ok(<<>>))
    /\ Len(listener.received) = 3 + NumModelFiles + 1
    /\ listener.received[3] = Progress(2, NumModelFiles)
    /\ listener.received[4] = Progress(0, NumModelFiles)

\* The last of the progress events received is p
LastEvent(received, p) ==
    /\ received # <<>>
    /\ SameProgress(received[Len(received)], p)

\* C26 as stated: once a download has completed k files, k of 6 is what the
\* Downloading status and the last progress event carry, while the next
\* file is fetched and, after the last file and the completion event, while
\* the engines are installed. (SpecDownload)
C26_ProgressAfterEachFile ==
    \A d \in Downloaders :
        /\ dl[d].pc = "fetch" =>
              /\ model_status = Downloading(dl[d].downloaded)
              /\ LastEvent(listener.received, Progress(dl[d].downloaded, NumModelFiles))
        /\ dl[d].pc = "apply" =>
              /\ model_status = Downloading(dl[d].downloaded)
              /\ LastEvent(listener.received, Progress(dl[d].downloaded, NumModelFiles))

\* C26: the progress event and the Downloading status are written before
\* each file is fetched, not after it: both carry the number of files
\* completed so far out of 6, the first being 0. Completing a file emits
\* nothing and leaves the status. After the sixth file one event of 1 is
\* emitted and the status stays at 5 of 6 until the engines are installed.
\* (SpecDownload)
C26_ProgressBeforeEachFile ==
    [][\A d \in Downloaders :
        /\ dl'[d].pc = "fetch" =>
              /\ model_status' = Downloading(dl'[d].downloaded)
              /\ LastEvent(listener'.received, Progress(dl'[d].downloaded, NumModelFiles))
        /\ (dl[d].pc = "file" /\ dl'[d].pc = "fetch") =>
              /\ Len(listener'.received) = Len(listener.received) + 1
              /\ dl'[d].downloaded = dl[d].downloaded
        /\ FetchStep(d) => UNCHANGED <<listener, model_status>>
        /\ dl'[d].pc = "build" =>
              /\ dl'[d].downloaded = NumModelFiles
              /\ model_status' = Downloading(NumModelFiles - 1)
              /\ LastEvent(listener'.received, Progress(NumModelFiles - 1, NumModelFiles))
        /\ dl'[d].pc = "apply" =>
              /\ model_status' = Downloading(NumModelFiles - 1)
              /\ LastEvent(listener'.received, Progress(1, 1))
        /\ (dl[d].pc = "build" /\ dl'[d] # dl[d]) =>
              Len(listener'.received) = Len(listener.received) + 1]_vars

\* all six files are on disk and the completion event has been received,
\* and the status still reads 5 of 6
C26_Witness ==
    /\ dl[1].pc = "apply"
    /\ dl[1].downloaded = NumModelFiles
    /\ model_dir = 1..NumModelFiles
    /\ model_status = Downloading(NumModelFiles - 1)
    /\ LastEvent(listener.received, Progress(1, 1))
    /\ Len(listener.received) = NumModelFiles + 1

----------------------------------------------------------------------------
(* Properties of the engine mutexes *)

\* The call w has locked engine i and has not returned
Holding(w, i) ==
    \/ tx[w].pc = "run" /\ tx[w].engine >= i
    \/ tx[w].pc = "lock" /\ tx[w].engine > i

\* C27: no two transcribe calls on one loaded model hold, and so none run,
\* the same engine at the same time; a call that has reached the lock of an
\* engine another call holds is still there, without the engine.
\* (SpecEngines)
C27_EngineExclusive ==
    \A i \in DOMAIN Engines :
        \A w1, w2 \in Transcribers :
            (Holding(w1, i) /\ Holding(w2, i)) => w1 = w2

\* the first call runs the decoder, holding all three engines, while the
\* second waits at the lock of the preprocessor
C27_Witness ==
    /\ tx[1] = TxAt("run", 3)
    /\ tx[2] = TxAt("lock", 1)
    /\ \A i \in DOMAIN Engines : Holding(1, i) /\ ~Holding(2, i)

----------------------------------------------------------------------------
(* Properties of the session's states *)

\* C28: the locked block of stop_and_transcribe leaves the session not
\* recording and the buffer empty whether or not the engines are loaded, and
\* the end of the transcription, with a transcript or with an error, changes
\* neither; while the transcription runs no step but its own end changes
\* the task, its audio or its engines. (Spec)
C28_StopLeavesIdle ==
    [][/\ stt_stop_and_transcribe =>
             /\ is_recording' = FALSE
             /\ audio_buffer' = <<>>
             /\ task'.pc = "running" <=> inference.ok
             /\ task'.pc = "idle" => task'.ret.err \in NotLoadedErrors
       /\ task.pc = "running" =>
             \/ UNCHANGED <<task, audio, snapshot>>
             \/ /\ task'.pc = "idle"
                /\ task'.ret \in TranscribeOutcomes(audio) \cup {LockError}
                /\ UNCHANGED <<is_recording, audio_buffer, call, model_status, audio>>]_vars

\* a recording was stopped and its transcription failed in an engine: the
\* session is idle and the buffer empty
C28_Witness ==
    /\ call.op = "stop_and_transcribe"
    /\ started
    /\ pushed # <<>>
    /\ task = TaskIdle(Err("inference"))
    /\ is_recording = FALSE
    /\ audio_buffer = <<>>

\* C29: in every state the three engine handles are all None or all Some,
\* then of one build, and model_status Ready implies they are Some.
\* (SpecRace)
C29_ReadyMeansLoaded ==
    /\ \/ /\ preprocessor_session = None
          /\ encoder_session = None
          /\ decoder_session = None
       \/ /\ preprocessor_session # None
          /\ encoder_session = preprocessor_session
          /\ decoder_session = preprocessor_session
    /\ model_status.type = "Ready" => preprocessor_session # None

\* a second download has replaced the engines of the first: the model is
\* Ready on the three handles of the second build
C29_Witness ==
    /\ model_status = Ready
    /\ preprocessor_session \notin {None, InitHandle}
    /\ encoder_session = preprocessor_session
    /\ decoder_session = preprocessor_session
    /\ \A d \in Racers : dl[d] = DlIdle(Ok(<<>>))

\* C30: in every state, is_recording implies model_status Ready. (SpecRace)
C30_RecordingImpliesReady ==
    is_recording => model_status.type = "Ready"

----------------------------------------------------------------------------
(* Properties of the emitted tokens *)

\* C31: at the head of the loop no emitted token is the blank id, and the
\* same-step counter is between 0 and 9 and is the number of tokens emitted
\* since t last advanced; a step of the loop leaves the tokens as they were
\* or appends one token to them. (SpecDecode)
C31_TokensAndCounter ==
    [][/\ tpc' = "loop" =>
             /\ \A i \in DOMAIN tokens' : tokens'[i] # inf.blank_idx
             /\ 0 <= emitted_tokens' /\ emitted_tokens' <= 9
             /\ emitted_tokens' = Len(tokens') - frame_start'
       /\ tpc = "loop" =>
             \/ tokens' = tokens
             \/ /\ Len(tokens') = Len(tokens) + 1
                /\ SubSeq(tokens', 1, Len(tokens)) = tokens]_vars

\* the loop is at frame 1 with three tokens emitted, two of them at this
\* frame, and the last step was an emission
C31_Witness ==
    /\ tpc = "loop"
    /\ t = 1
    /\ Len(tokens) = 3
    /\ frame_start = 1
    /\ emitted_tokens = 2
    /\ token # inf.blank_idx

----------------------------------------------------------------------------
(* Properties of the locks *)

\* The transcribe call w has begun and not returned
Pending(w) == tx[w].pc \in {"lock", "run"}

\* C32: the session lock is free whenever a transcribe call waits for or
\* holds an engine; a call holds an engine only together with all engines
\* before it in the order preprocessor, encoder, decoder, and an engine held
\* is held by a call that has not returned; and every transcribe call that
\* has begun returns. (SpecEnginesFair)
C32_NoDeadlock ==
    /\ [](\A w \in Transcribers : Pending(w) => state_lock = Unlocked)
    /\ [](\A i \in DOMAIN Engines :
            engine_guard[i] # Free =>
                /\ Pending(engine_guard[i])
                /\ \A j \in 1..i : engine_guard[j] = engine_guard[i])
    /\ \A w \in Transcribers : Pending(w) ~> (tx[w].pc = "done")

\* all three calls have returned, the last of them with a transcript, after
\* a get_status call went through
C32_Witness ==
    /\ \A w \in Transcribers : tx[w].pc = "done"
    /\ \A w \in Transcribers : tx[w].ret = Ok(<<"a">>)
    /\ engine_guard = [i \in DOMAIN Engines |-> Free]
    /\ call.op = "get_status"

----------------------------------------------------------------------------
(* Properties of a transcription's snapshot and audio *)

\* C33: the snapshot a transcription starts with has the three engine
\* handles and the vocabulary of one load, the one the session holds at that
\* moment; while the transcription runs its snapshot stays as taken, also
\* across a download that installs newly built models. (SpecRace)
C33_ConsistentSnapshot ==
    [][/\ (task.pc = "idle" /\ task'.pc = "running") =>
             /\ snapshot' # None
             /\ snapshot' = preprocessor_session
             /\ snapshot' = encoder_session
             /\ snapshot' = decoder_session
             /\ snapshot_vocab' = vocab_load
       /\ task'.pc = "running" => snapshot_vocab' = snapshot'
       /\ (task.pc = "running" /\ task'.pc = "running") =>
             UNCHANGED <<snapshot, snapshot_vocab>>]_vars

\* a download has installed a second build while a transcription runs on
\* the engines and the vocabulary of the first
C33_Witness ==
    /\ task.pc = "running"
    /\ snapshot = InitHandle
    /\ snapshot_vocab = InitHandle
    /\ model_status = Ready
    /\ preprocessor_session \notin {None, InitHandle}
    /\ vocab_load = preprocessor_session

\* C34: the audio a transcription starts with is the buffer stop_recording
\* drained, which for a session that was recording is what was pushed since
\* its start; while
\* the transcription runs, no start_recording or push_audio changes that
\* audio, and what the transcription returns is an outcome of that audio.
\* (Spec)
C34_SessionIsolation ==
    [][/\ (task.pc = "idle" /\ task'.pc = "running") =>
             /\ audio' = audio_buffer
             /\ is_recording => audio' = pushed
             /\ audio_buffer' = <<>>
       /\ task.pc = "running" =>
             /\ audio' = audio
             /\ task'.pc = "idle" =>
                   task'.ret \in TranscribeOutcomes(audio) \cup {LockError}]_vars

\* while one sample is being transcribed, a new recording has been started
\* and two samples have been pushed to it
C34_Witness ==
    /\ task.pc = "running"
    /\ Len(audio) = 1
    /\ is_recording
    /\ call.op = "push_audio"
    /\ Len(audio_buffer) = 2
    /\ pushed = audio_buffer

====
